---- MODULE Spec2Model ----
(***************************************************************************)
(* Model of Faster_RCNN/utils/transform.py: GeneralizedRCNNTransform       *)
(* (resize, batch_images, _onnx_batch_images, postprocess, forward,        *)
(* torch_choice, max_by_axis) and the module function resize_boxes.        *)
(*                                                                         *)
(* Conventions.  The Python floats that decide the resized image size     *)
(* (scale_factor and its products) are IEEE-754 doubles, modelled digit    *)
(* by digit.  Box coordinates and the stride rounding are modelled as      *)
(* exact rationals <<n, d>> in lowest terms with d > 0.  Tensors are       *)
(* records [shape, data] with data a function from 1-based index tuples    *)
(* to values; a Python slice [:n] is the index range 1..n.                 *)
(***************************************************************************)
EXTENDS Integers, Sequences, FiniteSets, TLC

VARIABLES
    min_size,    \* self.min_size: tuple of candidate minimum edges
    max_size,    \* self.max_size
    training,    \* self.training (nn.Module mode flag)
    call,        \* the operation invoked last, with its arguments as they were passed
    ret          \* what it returned or raised, and the caller's mutable arguments
                 \* (target dicts, prediction dicts) as the call left them

vars == <<min_size, max_size, training, call, ret>>
self == <<min_size, max_size, training>>

----------------------------------------------------------------------------
(* Bounds of the model *)

MaxImages == 2      \* longest image list given to batch_images / forward
MaxStride == 3      \* largest size_divisible tried on batch_images
MaxPreds == 2       \* longest list given to postprocess

DefaultStride == 32 \* batch_images' default size_divisible

----------------------------------------------------------------------------
(* Integer and rational arithmetic *)

Max(a, b) == IF a >= b THEN a ELSE b
Min(a, b) == IF a <= b THEN a ELSE b
Abs(a) == IF a < 0 THEN -a ELSE a

RECURSIVE GCD(_, _)
GCD(a, b) == IF b = 0 THEN a ELSE GCD(b, a % b)

\* n / d as a rational in lowest terms, d # 0
Rat(n, d) ==
    LET s == IF d < 0 THEN -1 ELSE 1
        g == GCD(Abs(n), Abs(d))
    IN  <<(s * n) \div g, (s * d) \div g>>

\* float(n)
ToFloat(n) == <<n, 1>>
RatMul(p, q) == Rat(p[1] * q[1], p[2] * q[2])
RatDiv(p, q) == Rat(p[1] * q[2], p[2] * q[1])
RatLE(p, q) == p[1] * q[2] <= q[1] * p[2]
RatFloor(p) == p[1] \div p[2]
RatCeil(p) == -((-p[1]) \div p[2])

SeqMax(s) == CHOOSE m \in {s[j] : j \in DOMAIN s} : \A j \in DOMAIN s : s[j] <= m

\* sequences over S of length lo..hi
SeqsOf(S, lo, hi) == UNION {[1..n -> S] : n \in lo..hi}

----------------------------------------------------------------------------
(* IEEE-754 double arithmetic *)

\* A double > 0 is [bits, exp]: bits the MantissaBits binary digits of the
\* significand, most significant first (bits[1] = 1), exp the weight of bits[1].
\* Long division and multiplication work on limbs of 9 digits (base 512).
MantissaBits == 53

\* floor(log2(n)) for 0 < n < 2^30
FloorLog2(n) == CHOOSE k \in 0..29 : 2^k <= n /\ n < 2^(k + 1)

\* the binary digits of n > 0, most significant first
BitsOf(n) == [i \in 1..(FloorLog2(n) + 1) |-> (n \div 2^(FloorLog2(n) + 1 - i)) % 2]

\* the 9 digits of a limb 0 <= l < 512
BitsOfLimb(l) == [j \in 1..9 |-> (l \div 2^(9 - j)) % 2]

\* the value of the digits o+1 .. o+9 of a bit string
Limb(bits, o) ==
    256 * bits[o + 1] + 128 * bits[o + 2] + 64 * bits[o + 3] + 32 * bits[o + 4]
    + 16 * bits[o + 5] + 8 * bits[o + 6] + 4 * bits[o + 7] + 2 * bits[o + 8] + bits[o + 9]

\* the value of an expression, computed once
ValueOf(S) == CHOOSE v \in S : TRUE

\* round-to-nearest-even of a bit string (leading digit 1 of weight 2^exp,
\* at least MantissaBits digits) to a double; `sticky` tells whether non-zero
\* digits follow the string
RoundDigits(bits, exp, sticky) ==
    LET kept == SubSeq(bits, 1, MantissaBits)
        guard == IF Len(bits) > MantissaBits THEN bits[MantissaBits + 1] ELSE 0
        rest == sticky \/ \E i \in (MantissaBits + 2)..Len(bits) : bits[i] = 1
        up == guard = 1 /\ (rest \/ kept[MantissaBits] = 1)
        zeros == {i \in 1..MantissaBits : kept[i] = 0}
        last0 == CHOOSE i \in zeros : \A j \in zeros : j <= i
    IN  IF ~up THEN [bits |-> kept, exp |-> exp]
        ELSE IF zeros = {}
             THEN [bits |-> [i \in 1..MantissaBits |-> IF i = 1 THEN 1 ELSE 0], exp |-> exp + 1]
             ELSE [bits |-> [i \in 1..MantissaBits |->
                               IF i < last0 THEN kept[i] ELSE IF i = last0 THEN 1 ELSE 0],
                   exp |-> exp]

RoundToDouble(bits, exp, sticky) ==
    ValueOf({RoundDigits(b, e, s) : b \in {bits}, e \in {exp}, s \in {sticky}})

\* one step of long division in base 512
DivStep(r, den) == [q |-> (r * 512) \div den, r |-> (r * 512) % den]

\* float(a) / float(b) for integers 0 < a, b < 2^12: long division to
\* 1 + 6 * 9 digits, then rounding
\* the exponent t with 2^t <= a / b < 2^(t + 1)
QuotientExponent(a, b) ==
    CHOOSE e \in (-12)..12 :
        IF e >= 0 THEN b * 2^e <= a /\ a < b * 2^(e + 1)
        ELSE b <= a * 2^(-e) /\ a * 2^(-e) < 2 * b

\* the digits of num / den, 1 <= num / den < 2, rounded; 2^t is the weight of
\* the first digit
LongDivision(num, den, t) ==
    LET s1 == DivStep(num - den, den)
        s2 == DivStep(s1.r, den)
        s3 == DivStep(s2.r, den)
        s4 == DivStep(s3.r, den)
        s5 == DivStep(s4.r, den)
        s6 == DivStep(s5.r, den)
        digits == <<1>> \o BitsOfLimb(s1.q) \o BitsOfLimb(s2.q) \o BitsOfLimb(s3.q)
                        \o BitsOfLimb(s4.q) \o BitsOfLimb(s5.q) \o BitsOfLimb(s6.q)
    IN  RoundToDouble(digits, t, s6.r # 0)

DoubleDiv(a, b) ==
    LET t == QuotientExponent(a, b)
    IN  ValueOf({LongDivision(num, den, t) :
                    num \in {IF t < 0 THEN a * 2^(-t) ELSE a},
                    den \in {IF t > 0 THEN b * 2^t ELSE b}})

\* the product of n and the significand digits m, by limbs, rounded; 2^exp is
\* the weight of m[1]
LimbProduct(n, m, exp) ==
    LET v6 == n * Limb(m, 45)
        v5 == n * Limb(m, 36) + v6 \div 512
        v4 == n * Limb(m, 27) + v5 \div 512
        v3 == n * Limb(m, 18) + v4 \div 512
        v2 == n * Limb(m, 9) + v3 \div 512
        v1 == n * Limb(m, 0) + v2 \div 512
        top == v1 \div 512
        low == BitsOfLimb(v1 % 512) \o BitsOfLimb(v2 % 512) \o BitsOfLimb(v3 % 512)
               \o BitsOfLimb(v4 % 512) \o BitsOfLimb(v5 % 512) \o BitsOfLimb(v6 % 512)
        p == IF top = 0 THEN low ELSE BitsOf(top) \o low
    IN  RoundToDouble(p, exp + (Len(p) - (MantissaBits + 1)), FALSE)

\* float(n) * d for an integer 0 < n < 2^12: the exact product, then rounding
DoubleMulInt(n, d) ==
    ValueOf({LimbProduct(k, dv.bits \o <<0>>, dv.exp) : k \in {n}, dv \in {d}})

\* int(d), math.floor(d) for 0 < d < 2^27
DoubleFloor(d) ==
    ValueOf({IF dv.exp < 0 THEN 0
             ELSE (Limb(dv.bits, 0) * 2^18 + Limb(dv.bits, 9) * 2^9 + Limb(dv.bits, 18))
                      \div 2^(26 - dv.exp) : dv \in {d}})

\* d > float(n)
DoubleGTInt(d, n) ==
    \E dv \in {d} :
        \/ DoubleFloor(dv) > n
        \/ /\ DoubleFloor(dv) = n
           /\ \E i \in 1..MantissaBits : i > dv.exp + 1 /\ dv.bits[i] = 1

----------------------------------------------------------------------------
(* Tensors *)

\* index tuples of a tensor of the given shape
Indices(shape) ==
    IF Len(shape) = 3
    THEN (1..shape[1]) \X (1..shape[2]) \X (1..shape[3])
    ELSE (1..shape[1]) \X (1..shape[2]) \X (1..shape[3]) \X (1..shape[4])

\* an input image [c, h, w] whose pixels are pairwise distinct and non-zero
Pixel(tag, ch, y, x) == tag * 1000 + ch * 100 + y * 10 + x
Image(shape, tag) ==
    [shape |-> shape,
     data  |-> [idx \in Indices(shape) |-> Pixel(tag, idx[1], idx[2], idx[3])]]

BatchShapes == {<<1, 1, 2>>, <<1, 2, 1>>, <<2, 2, 3>>, <<2, 1, 1>>}
PixelTags == {1, 2}
BatchInputImages == {Image(s, t) : s \in BatchShapes, t \in PixelTags}

----------------------------------------------------------------------------
(* batch_images and max_by_axis *)

RECURSIVE MaxByAxisLoop(_, _, _)
MaxByAxisLoop(maxes, the_list, k) ==
    IF k > Len(the_list) THEN maxes
    ELSE MaxByAxisLoop(
            [index \in DOMAIN maxes |->
                IF index <= Len(the_list[k])
                THEN Max(maxes[index], the_list[k][index])
                ELSE maxes[index]],
            the_list, k + 1)

max_by_axis(the_list) == MaxByAxisLoop(the_list[1], the_list, 2)

\* variant: math.floor in place of math.ceil
RoundDownToStride(n, stride) ==
    RatFloor(RatMul(ToFloat(RatFloor(RatDiv(ToFloat(n), ToFloat(stride)))), ToFloat(stride)))

\* int(math.ceil(float(n) / stride) * stride)
RoundUpToStride(n, stride) ==
    RatFloor(RatMul(ToFloat(RatCeil(RatDiv(ToFloat(n), ToFloat(stride)))), ToFloat(stride)))

\* images[0].new_full(batch_shape, 0)
new_full(shape, value) == [shape |-> shape, data |-> [idx \in Indices(shape) |-> value]]

\* variant: every image copied into batched_imgs[0]
CopyIntoFirstSlot(batched, k, img) ==
    [batched EXCEPT !.data =
        [idx \in DOMAIN @ |->
            IF /\ idx[1] = 1
               /\ idx[2] <= img.shape[1]
               /\ idx[3] <= img.shape[2]
               /\ idx[4] <= img.shape[3]
            THEN img.data[<<idx[2], idx[3], idx[4]>>]
            ELSE @[idx]]]

\* pad_img[: img.shape[0], : img.shape[1], : img.shape[2]].copy_(img), pad_img = batched[k]
CopyIntoSlot(batched, k, img) ==
    [batched EXCEPT !.data =
        [idx \in DOMAIN @ |->
            IF /\ idx[1] = k
               /\ idx[2] <= img.shape[1]
               /\ idx[3] <= img.shape[2]
               /\ idx[4] <= img.shape[3]
            THEN img.data[<<idx[2], idx[3], idx[4]>>]
            ELSE @[idx]]]

RECURSIVE CopyLoop(_, _, _)
CopyLoop(batched, images, k) ==
    IF k > Len(images) THEN batched
    ELSE CopyLoop(CopyIntoSlot(batched, k, images[k]), images, k + 1)

\* shape of the batch: [len(images)] + max_size, height and width rounded up
BatchShape(shapes, size_divisible) ==
    LET m == max_by_axis(shapes)
    IN  <<Len(shapes), m[1],
          RoundUpToStride(m[2], size_divisible),
          RoundUpToStride(m[3], size_divisible)>>

EagerBatchImages(images, size_divisible) ==
    LET batch_shape == BatchShape([k \in DOMAIN images |-> images[k].shape], size_divisible)
    IN  CopyLoop(new_full(batch_shape, 0), images, 1)

----------------------------------------------------------------------------
(* _onnx_batch_images *)

\* torch.max(torch.stack([img.shape[i] for img in images]))
MaxOverImages(images, i) == SeqMax([k \in DOMAIN images |-> images[k].shape[i]])

OnnxMaxSize(images, size_divisible) ==
    LET raw == [i \in 1..Len(images[1].shape) |-> MaxOverImages(images, i)]
    IN  <<raw[1], RoundUpToStride(raw[2], size_divisible),
                  RoundUpToStride(raw[3], size_divisible)>>

\* [(s1 - s2) for s1, s2 in zip(max_size, tuple(img.shape))]
OnnxPadding(max_sz, img) == [i \in 1..Min(Len(max_sz), Len(img.shape)) |-> max_sz[i] - img.shape[i]]

\* variant: the pad amounts applied before the data instead of after it
pad3_leading(img, p) ==
    LET before == <<p[6], p[4], p[2]>>
        after  == <<p[5], p[3], p[1]>>
        shape  == [i \in 1..3 |-> before[i] + img.shape[i] + after[i]]
    IN  [shape |-> shape,
         data  |-> [idx \in Indices(shape) |->
                      LET src == <<idx[1] - before[1], idx[2] - before[2], idx[3] - before[3]>>
                      IN  IF src \in Indices(img.shape) THEN img.data[src] ELSE 0]]

\* torch.nn.functional.pad(img, pad) on a 3-D tensor: pad lists (before, after)
\* pairs starting from the last dimension
pad3(img, p) ==
    LET before == <<p[5], p[3], p[1]>>
        after  == <<p[6], p[4], p[2]>>
        shape  == [i \in 1..3 |-> before[i] + img.shape[i] + after[i]]
    IN  [shape |-> shape,
         data  |-> [idx \in Indices(shape) |->
                      LET src == <<idx[1] - before[1], idx[2] - before[2], idx[3] - before[3]>>
                      IN  IF src \in Indices(img.shape) THEN img.data[src] ELSE 0]]

\* torch.stack of equally shaped 3-D tensors
stack(tensors) ==
    LET shape == <<Len(tensors)>> \o tensors[1].shape
    IN  [shape |-> shape,
         data  |-> [idx \in Indices(shape) |-> tensors[idx[1]].data[<<idx[2], idx[3], idx[4]>>]]]

_onnx_batch_images(images, size_divisible) ==
    LET max_sz == OnnxMaxSize(images, size_divisible)
        padded_imgs ==
            [k \in DOMAIN images |->
                LET padding == OnnxPadding(max_sz, images[k])
                IN  pad3(images[k], <<0, padding[3], 0, padding[2], 0, padding[1]>>)]
    IN  stack(padded_imgs)

\* batch_images: the traced path delegates to _onnx_batch_images
batch_images(images, size_divisible, tracing) ==
    IF tracing THEN _onnx_batch_images(images, size_divisible)
    ELSE EagerBatchImages(images, size_divisible)

----------------------------------------------------------------------------
(* resize_boxes *)

\* variant: integer division of the two sizes
RatioFloorDiv(s, s_orig) == ToFloat(s \div s_orig)

\* torch.tensor(s) / torch.tensor(s_orig)
Ratio(s, s_orig) == RatDiv(ToFloat(s), ToFloat(s_orig))

\* scaling of one box (xmin, ymin, xmax, ymax) by the two unpacked ratios
ScaleBox(box, ratios_height, ratios_width) ==
    <<RatMul(box[1], ratios_width),
      RatMul(box[2], ratios_height),
      RatMul(box[3], ratios_width),
      RatMul(box[4], ratios_height)>>

\* variant: the two ratios unpacked as (width, height)
resize_boxes_swapped(boxes, original_size, new_size) ==
    LET ratios == [j \in 1..Min(Len(new_size), Len(original_size)) |->
                      Ratio(new_size[j], original_size[j])]
        ratios_width == ratios[1]
        ratios_height == ratios[2]
    IN  [b \in DOMAIN boxes |-> ScaleBox(boxes[b], ratios_height, ratios_width)]

resize_boxes(boxes, original_size, new_size) ==
    LET ratios == [j \in 1..Min(Len(new_size), Len(original_size)) |->
                      Ratio(new_size[j], original_size[j])]
        ratios_height == ratios[1]
        ratios_width == ratios[2]
    IN  [b \in DOMAIN boxes |-> ScaleBox(boxes[b], ratios_height, ratios_width)]

----------------------------------------------------------------------------
(* resize *)

NoTarget == [isNone |-> TRUE, boxes |-> <<>>]
Target(boxes) == [isNone |-> FALSE, boxes |-> boxes]

\* torch_choice(k) with the drawn index made explicit (1-based)
torch_choice(k, index) == k[index]

\* the indices int(uniform_(0, len(k))) can produce, 1-based
ChoiceIndices(k) == 1..Len(k)

\* size used in inference mode: self.min_size[-1]
InferenceSize(sizes) == sizes[Len(sizes)]

\* size = float(...): the integer it holds
TargetEdge(sizes, train, index) ==
    IF train THEN torch_choice(sizes, index) ELSE InferenceSize(sizes)

\* variant: the limit on the longer edge is not applied
ScaleFactorUncapped(h, w, size, limit) == DoubleDiv(size, Min(h, w))

\* if max_size * scale_factor > self.max_size: scale_factor = self.max_size / max_size
LimitScale(im_max, scale_factor, limit) ==
    IF DoubleGTInt(DoubleMulInt(im_max, scale_factor), limit)
    THEN DoubleDiv(limit, im_max)
    ELSE scale_factor

\* scale_factor of resize for an h x w image, target edge `size`, limit `limit`
ScaleFactor(h, w, size, limit) ==
    LimitScale(Max(h, w), DoubleDiv(size, Min(h, w)), limit)

\* spatial size F.interpolate gives an n-long axis under scale_factor:
\* the double product float(n) * scale_factor, truncated
InterpolatedLen(n, scale_factor) == DoubleFloor(DoubleMulInt(n, scale_factor))

\* what resize returns once F.interpolate has produced an nh x nw image
\* (it rejects an empty output): the resized image and the target, its boxes
\* rescaled from (h, w) to (nh, nw)
Resized(shape, target, size, scale_factor, h, w, nh, nw) ==
    IF nh <= 0 \/ nw <= 0
    THEN [error |-> "interpolate", shape |-> shape, target |-> target,
          size |-> size, scale_factor |-> scale_factor]
    ELSE [error |-> "none",
          shape |-> <<shape[1], nh, nw>>,
          target |-> IF target.isNone THEN target
                     ELSE [target EXCEPT !.boxes = resize_boxes(@, <<h, w>>, <<nh, nw>>)],
          size |-> size, scale_factor |-> scale_factor]

\* F.interpolate(image[None], scale_factor=scale_factor) and the rest of resize
Interpolate(shape, target, size, scale_factor, h, w) ==
    Resized(shape, target, size, scale_factor, h, w,
            InterpolatedLen(h, scale_factor), InterpolatedLen(w, scale_factor))

\* resize(image, target): image is given by its shape [c, h, w];
\* `size` is the chosen target edge
resize(shape, target, size, limit) ==
    Interpolate(shape, target, size,
                ScaleFactor(shape[Len(shape) - 1], shape[Len(shape)], size, limit),
                shape[Len(shape) - 1], shape[Len(shape)])

----------------------------------------------------------------------------
(* postprocess *)

\* the loop over zip(result, image_shapes, original_image_sizes)
PostprocessLoop(res, image_shapes, original_image_sizes) ==
    LET n == Min(Len(res), Min(Len(image_shapes), Len(original_image_sizes)))
    IN  [i \in DOMAIN res |->
            IF i <= n
            THEN [res[i] EXCEPT !.boxes = resize_boxes(@, image_shapes[i], original_image_sizes[i])]
            ELSE res[i]]

\* variant: the training flag is not consulted
PostprocessAlways(res, image_shapes, original_image_sizes, train) ==
    PostprocessLoop(res, image_shapes, original_image_sizes)

postprocess(res, image_shapes, original_image_sizes, train) ==
    IF train THEN res
    ELSE PostprocessLoop(res, image_shapes, original_image_sizes)

----------------------------------------------------------------------------
(* forward *)

NoTargets == [isNone |-> TRUE, list |-> <<>>]
Targets(list) == [isNone |-> FALSE, list |-> list]

\* the ValueError of forward, naming the offending shape
ValueError(shape, i) == [kind |-> "ValueError", shape |-> shape, index |-> i]
LibraryError(shape, i) == [kind |-> "interpolate", shape |-> shape, index |-> i]
NoError == [kind |-> "none", shape |-> <<>>, index |-> 0]

\* variant: only tensors of fewer than 3 dimensions are rejected
FewerThanThreeDimensions(image) == Len(image.shape) < 3

\* image.dim() != 3
NotThreeDimensional(image) == Len(image.shape) # 3

\* normalize(image): values are the tensor library's; the model records the call
normalize(image) == [image EXCEPT !.normalized = TRUE]

\* forward's per-image loop from image i on; st holds the local list
\* `images`, the caller's targets and the pending exception.  StoreResized is
\* the part of the body after resize has returned r.
RECURSIVE ForwardLoop(_, _, _, _, _, _)
RECURSIVE StoreResized(_, _, _, _, _, _, _)
StoreResized(st, i, r, sizes, limit, train, choices) ==
    IF r.error # "none"
    THEN [st EXCEPT !.images[i] = normalize(@),
                    !.error = LibraryError(st.images[i].shape, i)]
    ELSE ForwardLoop(
            [st EXCEPT
                !.images[i] = [normalize(@) EXCEPT !.shape = r.shape, !.resized = TRUE],
                !.targets = IF st.targets.isNone \/ r.target.isNone THEN @
                            ELSE [@ EXCEPT !.list[i] = r.target]],
            i + 1, sizes, limit, train, choices)

ForwardLoop(st, i, sizes, limit, train, choices) ==
    IF i > Len(st.images) THEN st
    ELSE IF NotThreeDimensional(st.images[i])
         THEN [st EXCEPT !.error = ValueError(st.images[i].shape, i)]
         ELSE StoreResized(st, i,
                  resize(normalize(st.images[i]).shape,
                         IF st.targets.isNone THEN NoTarget ELSE st.targets.list[i],
                         TargetEdge(sizes, train, choices[i]), limit),
                  sizes, limit, train, choices)

\* ImageList(images, image_sizes_list)
ImageList(tensors, image_sizes) == [isNone |-> FALSE, tensors |-> tensors, image_sizes |-> image_sizes]
NoImageList == [isNone |-> TRUE, tensors |-> <<>>, image_sizes |-> <<>>]

\* forward(images, targets): the final state of the call
forward(images, tgts, sizes, limit, train, choices) ==
    LET st == ForwardLoop([images |-> images, targets |-> tgts, error |-> NoError],
                          1, sizes, limit, train, choices)
    IN  IF st.error.kind # "none"
        THEN [error |-> st.error, images |-> st.images, targets |-> st.targets,
              image_list |-> NoImageList]
        ELSE
          LET image_sizes == [k \in DOMAIN st.images |->
                                 <<st.images[k].shape[2], st.images[k].shape[3]>>]
              batch == BatchShape([k \in DOMAIN st.images |-> st.images[k].shape],
                                  DefaultStride)
          IN  [error |-> NoError, images |-> st.images, targets |-> st.targets,
               image_list |-> ImageList(batch, image_sizes)]

----------------------------------------------------------------------------
(* Inputs *)

\* constructor arguments (min_size, max_size); min_size as a tuple or a scalar
TupleConfigs == {<<<<480, 512, 544, 576, 608, 640>>, 1000>>,
                 <<<<2, 3>>, 5>>,
                 <<<<3, 2>>, 5>>}
ScalarConfigs == {<<4, 5>>}

\* image sizes (height, width)
ImageSizes == {<<2, 3>>, <<3, 2>>, <<1, 4>>, <<4, 4>>, <<600, 800>>, <<800, 600>>, <<1, 600>>,
               <<3, 19>>, <<11, 20>>}
BoxSizes == {<<2, 3>>, <<3, 2>>, <<4, 4>>, <<600, 800>>, <<640, 853>>}
PostShapes == {<<3, 4>>, <<640, 853>>}
PostOriginals == {<<2, 3>>, <<600, 800>>}

\* boxes (xmin, ymin, xmax, ymax) as float tensors
Box(xmin, ymin, xmax, ymax) == <<ToFloat(xmin), ToFloat(ymin), ToFloat(xmax), ToFloat(ymax)>>
BoxSet == {Box(10, 10, 50, 50), Box(0, 0, 1, 1), Box(1, 2, 3, 5)}
BoxLists == SeqsOf(BoxSet, 0, 2)
FewBoxLists == {<<>>, <<Box(10, 10, 50, 50)>>, <<Box(1, 2, 3, 5), Box(0, 0, 1, 1)>>}
Pred(boxes) == [boxes |-> boxes]

\* shapes of the tensors given to forward: 3-D, 2-D and 4-D ones
ForwardShapes == {<<3, 2, 3>>, <<3, 600, 800>>, <<3, 1, 600>>, <<2, 3>>, <<1, 3, 2, 2>>}
ForwardImage(shape) == [shape |-> shape, normalized |-> FALSE, resized |-> FALSE]
ForwardTargets == {Target(<<>>), Target(<<Box(10, 10, 50, 50)>>)}

----------------------------------------------------------------------------
(* State machine *)

NoCall == [op |-> "none"]
NoRet == [error |-> "none"]

\* __init__ with a tuple or list min_size
InitTuple ==
    \E cfg \in TupleConfigs :
        /\ min_size = cfg[1]
        /\ max_size = cfg[2]

\* __init__ with a scalar min_size: min_size = (min_size,)
InitScalar ==
    \E cfg \in ScalarConfigs :
        /\ min_size = <<cfg[1]>>
        /\ max_size = cfg[2]

\* nn.Module's train()/eval() set the mode before any call
Init ==
    /\ InitTuple \/ InitScalar
    /\ training \in BOOLEAN
    /\ call = NoCall
    /\ ret = NoRet

\* No call changes self, so a behaviour is a construction followed by one call
\* on the fresh object (and, for two of them, one call on what it returned).
Fresh == call.op = "none"

\* resize(image, target) on a [3, h, w] image
CallResize ==
  /\ Fresh
  /\ \E hw \in ImageSizes, target \in {NoTarget} \cup {Target(b) : b \in BoxLists},
       index \in ChoiceIndices(min_size) :
        LET shape == <<3, hw[1], hw[2]>>
            r == resize(shape, target, TargetEdge(min_size, training, index), max_size)
        IN  /\ call' = [op |-> "resize", shape |-> shape, target |-> target]
            /\ ret' = r
            /\ UNCHANGED self

\* batch_images(images, size_divisible), eagerly or while tracing
CallBatchImages ==
  /\ Fresh
  /\ \E images \in SeqsOf(BatchInputImages, 1, MaxImages), size_divisible \in 1..MaxStride,
       tracing \in BOOLEAN :
        /\ call' = [op |-> "batch_images", images |-> images,
                    size_divisible |-> size_divisible, tracing |-> tracing]
        /\ ret' = [error |-> "none", value |-> batch_images(images, size_divisible, tracing)]
        /\ UNCHANGED self

\* resize_boxes(boxes, original_size, new_size)
CallResizeBoxes ==
  /\ Fresh
  /\ \E boxes \in BoxLists, original_size \in BoxSizes, new_size \in BoxSizes :
        /\ call' = [op |-> "resize_boxes", boxes |-> boxes,
                    original_size |-> original_size, new_size |-> new_size]
        /\ ret' = [error |-> "none", value |-> resize_boxes(boxes, original_size, new_size)]
        /\ UNCHANGED self

\* resize_boxes applied to the boxes just returned, with the two sizes exchanged
CallResizeBoxesBack ==
    /\ call.op = "resize_boxes"
    /\ call' = [op |-> "resize_boxes_back", boxes |-> ret.value,
                original_size |-> call.new_size, new_size |-> call.original_size,
                first |-> call]
    /\ ret' = [error |-> "none",
               value |-> resize_boxes(ret.value, call.new_size, call.original_size)]
    /\ UNCHANGED self

\* postprocess(result, image_shapes, original_image_sizes) on arbitrary lists
CallPostprocess ==
  /\ Fresh
  /\ \E res \in SeqsOf({Pred(b) : b \in FewBoxLists}, 0, MaxPreds),
       image_shapes \in SeqsOf(PostShapes, 0, MaxPreds),
       original_image_sizes \in SeqsOf(PostOriginals, 0, MaxPreds) :
        LET out == postprocess(res, image_shapes, original_image_sizes, training)
        IN  /\ call' = [op |-> "postprocess", result |-> res, image_shapes |-> image_shapes,
                        original_image_sizes |-> original_image_sizes, piped |-> FALSE]
            /\ ret' = [error |-> "none", value |-> out, result |-> out]
            /\ UNCHANGED self

\* postprocess fed with the boxes a successful resize has just produced:
\* image_shapes is the resized size, original_image_sizes the size before resize
CallPostprocessAfterResize ==
    /\ call.op = "resize"
    /\ ret.error = "none"
    /\ ~ret.target.isNone
    /\ LET res == <<Pred(ret.target.boxes)>>
           image_shapes == <<<<ret.shape[2], ret.shape[3]>>>>
           original_image_sizes == <<<<call.shape[2], call.shape[3]>>>>
           out == postprocess(res, image_shapes, original_image_sizes, training)
       IN  /\ call' = [op |-> "postprocess", result |-> res, image_shapes |-> image_shapes,
                       original_image_sizes |-> original_image_sizes, piped |-> TRUE,
                       before_resize |-> call.target.boxes]
           /\ ret' = [error |-> "none", value |-> out, result |-> out]
    /\ UNCHANGED self

\* forward(images, targets): targets is None or one target per image
CallForward ==
  /\ Fresh
  /\ \E n \in 1..MaxImages :
      \E shapes \in [1..n -> ForwardShapes],
         tgts \in {NoTargets} \cup {Targets(l) : l \in [1..n -> ForwardTargets]},
         choices \in [1..n -> ChoiceIndices(min_size)] :
        LET images == [k \in 1..n |-> ForwardImage(shapes[k])]
            out == forward(images, tgts, min_size, max_size, training, choices)
        IN  /\ call' = [op |-> "forward", images |-> images, targets |-> tgts]
            /\ ret' = out
            /\ UNCHANGED self

Next ==
    \/ CallResize
    \/ CallBatchImages
    \/ CallResizeBoxes
    \/ CallResizeBoxesBack
    \/ CallPostprocess
    \/ CallPostprocessAfterResize
    \/ CallForward

Spec == Init /\ [][Next]_vars

----------------------------------------------------------------------------
(* Properties *)

IsBatchCall == call.op = "batch_images"
Heights(images) == {images[k].shape[2] : k \in DOMAIN images}
Widths(images) == {images[k].shape[3] : k \in DOMAIN images}
Channels(images) == {images[k].shape[1] : k \in DOMAIN images}
Largest(S) == CHOOSE m \in S : \A v \in S : v <= m

\* C1: batch_images returns a tensor of shape [N, C, H, W] with N the number of
\* images, C the largest channel count, and H (W) the smallest multiple of the
\* stride that is >= the largest height (width): divisible by the stride and
\* less than one stride above the maximum.
BatchShapeIsSmallestMultiple ==
    IsBatchCall =>
        LET d == call.size_divisible
            shape == ret.value.shape
            mh == Largest(Heights(call.images))
            mw == Largest(Widths(call.images))
        IN  /\ Len(shape) = 4
            /\ shape[1] = Len(call.images)
            /\ shape[2] = Largest(Channels(call.images))
            /\ shape[3] % d = 0 /\ shape[3] >= mh /\ shape[3] - mh < d
            /\ shape[4] % d = 0 /\ shape[4] >= mw /\ shape[4] - mw < d
            /\ DOMAIN ret.value.data = Indices(shape)

BatchShapeWitness ==
    /\ IsBatchCall
    /\ Len(call.images) = 2
    /\ call.images[1].shape = <<1, 2, 1>>
    /\ call.images[2].shape = <<2, 2, 3>>
    /\ call.size_divisible = 2
    /\ ret.value.shape = <<2, 2, 2, 4>>

\* C2: in the batch, slot k holds image k's pixels at the same index and 0 at
\* every other position; no pixel of an image lands in another slot.
BatchKeepsPixelsInPlace ==
    IsBatchCall =>
        \A idx \in DOMAIN ret.value.data :
            LET img == call.images[idx[1]]
                inside == /\ idx[2] <= img.shape[1]
                          /\ idx[3] <= img.shape[2]
                          /\ idx[4] <= img.shape[3]
            IN  ret.value.data[idx] =
                    IF inside THEN img.data[<<idx[2], idx[3], idx[4]>>] ELSE 0

BatchPixelsWitness ==
    /\ IsBatchCall
    /\ ~call.tracing
    /\ Len(call.images) = 2
    /\ call.images[1].shape = <<2, 2, 3>>
    /\ call.images[2].shape = <<1, 1, 2>>
    /\ call.images[1].data # call.images[2].data
    /\ ret.value.data[<<2, 1, 1, 2>>] = call.images[2].data[<<1, 1, 2>>]
    /\ ret.value.data[<<2, 2, 2, 3>>] = 0
    /\ ret.value.data[<<1, 2, 2, 3>>] = call.images[1].data[<<2, 2, 3>>]

IsResizeCall == call.op = "resize"

\* C3: in inference mode resize takes the largest configured min_size as the
\* target edge, in whatever order the values were configured.
InferenceUsesLargestMinSize ==
    (IsResizeCall /\ ~training) => ret.size = SeqMax(min_size)

IsPostprocessCall == call.op = "postprocess"

\* C4: in training mode postprocess returns the list it was given and leaves
\* every prediction's boxes as they were, whatever the lengths of the lists.
TrainingPostprocessIsIdentity ==
    (IsPostprocessCall /\ training) =>
        /\ ret.value = call.result
        /\ ret.result = call.result

TrainingPostprocessWitness ==
    /\ IsPostprocessCall
    /\ training
    /\ Len(call.result) = 2
    /\ Len(call.image_shapes) = 1
    /\ Len(call.original_image_sizes) = 2
    /\ call.result[1].boxes # <<>>
    /\ call.image_shapes[1] # call.original_image_sizes[1]
    /\ ret.value = call.result

\* C5: resize_boxes from size A to size B followed by resize_boxes from B to A
\* gives the boxes back (in exact arithmetic); hence boxes rescaled by resize
\* and passed through inference-mode postprocess with the resized and the
\* original size are back at their original coordinates.
ResizeBoxesRoundTrip ==
    /\ call.op = "resize_boxes_back" => ret.value = call.first.boxes
    /\ (IsPostprocessCall /\ call.piped /\ ~training) =>
            ret.result[1].boxes = call.before_resize

RoundTripWitness ==
    /\ call.op = "resize_boxes_back"
    /\ call.first.original_size = <<600, 800>>
    /\ call.first.new_size = <<640, 853>>
    /\ call.first.boxes = <<Box(1, 2, 3, 5), Box(10, 10, 50, 50)>>
    /\ call.boxes # call.first.boxes
    /\ ret.value = call.first.boxes

\* the resized edge of an n-long axis in exact arithmetic: floor(n * s) with
\* s = m / min(h, w), or s = M / max(h, w) when max(h, w) * m / min(h, w) > M
ExactEdge(n, h, w, m, M) ==
    IF Max(h, w) * m > M * Min(h, w)
    THEN (n * M) \div Max(h, w)
    ELSE (n * m) \div Min(h, w)

\* C6 as stated: resize scales both axes by s = m / min(h, w), or by
\* s = M / max(h, w) when max(h, w) * m / min(h, w) > M, to
\* floor(h*s) x floor(w*s); the longer edge never exceeds M, and the shorter
\* edge is m or the longer edge is M.  A 600 x 800 image under min_size
\* (480,...,640), M = 1000 becomes 640 x 853 in inference mode.
ResizeScaleLaw ==
    (IsResizeCall /\ ret.error = "none") =>
        LET h == call.shape[2]
            w == call.shape[3]
            m == ret.size
            M == max_size
        IN  /\ ret.shape = <<call.shape[1], ExactEdge(h, h, w, m, M), ExactEdge(w, h, w, m, M)>>
            /\ Max(ret.shape[2], ret.shape[3]) <= M
            /\ Min(ret.shape[2], ret.shape[3]) = m \/ Max(ret.shape[2], ret.shape[3]) = M
            /\ (/\ ~training
                /\ h = 600 /\ w = 800
                /\ min_size = <<480, 512, 544, 576, 608, 640>>
                /\ M = 1000) => ret.shape = <<3, 640, 853>>

\* C6 amended: s and the products h*s, w*s are doubles, so each resized edge
\* is the exact floor or one less; the longer edge never exceeds M, and the
\* shorter edge is m or m-1, or the longer edge is M or M-1.  The 600 x 800
\* example gives exactly 640 x 853.
ResizeScaleLawRounded ==
    (IsResizeCall /\ ret.error = "none") =>
        LET h == call.shape[2]
            w == call.shape[3]
            m == ret.size
            M == max_size
            short == Min(ret.shape[2], ret.shape[3])
            long == Max(ret.shape[2], ret.shape[3])
        IN  /\ Len(ret.shape) = 3 /\ ret.shape[1] = call.shape[1]
            /\ ret.shape[2] \in {ExactEdge(h, h, w, m, M) - 1, ExactEdge(h, h, w, m, M)}
            /\ ret.shape[3] \in {ExactEdge(w, h, w, m, M) - 1, ExactEdge(w, h, w, m, M)}
            /\ long <= M
            /\ short \in {m - 1, m} \/ long \in {M - 1, M}
            /\ (/\ ~training
                /\ h = 600 /\ w = 800
                /\ min_size = <<480, 512, 544, 576, 608, 640>>
                /\ M = 1000) => ret.shape = <<3, 640, 853>>

\* the longer edge is capped and the double product 19 * (1000 / 19) falls
\* below 1000
ResizeRoundedWitness ==
    /\ IsResizeCall
    /\ ret.error = "none"
    /\ ~training
    /\ call.shape = <<3, 3, 19>>
    /\ max_size = 1000
    /\ ret.size = 640
    /\ ret.shape = <<3, 157, 999>>

\* the box (xmin, ymin, xmax, ymax) with integer coordinates scaled from
\* (h, w) to (nh, nw)
ExpectedBox(box, h, w, nh, nw) ==
    <<Rat(box[1][1] * nw, w), Rat(box[2][1] * nh, h),
      Rat(box[3][1] * nw, w), Rat(box[4][1] * nh, h)>>

BoxesScaledAxisWise(out, boxes, original_size, new_size) ==
    /\ Len(out) = Len(boxes)
    /\ \A b \in DOMAIN boxes :
        /\ out[b] = ExpectedBox(boxes[b], original_size[1], original_size[2],
                                new_size[1], new_size[2])
        /\ RatLE(boxes[b][1], boxes[b][3]) => RatLE(out[b][1], out[b][3])
        /\ RatLE(boxes[b][2], boxes[b][4]) => RatLE(out[b][2], out[b][4])

\* C7: resize_boxes turns each box into (xmin*w'/w, ymin*h'/h, xmax*w'/w,
\* ymax*h'/h) for sizes (h, w) -> (h', w'), keeps the number and order of the
\* boxes and keeps xmin <= xmax and ymin <= ymax; resize applies it from the
\* image's size to its resized size.
ResizeBoxesAxisWise ==
    /\ call.op = "resize_boxes" =>
            BoxesScaledAxisWise(ret.value, call.boxes, call.original_size, call.new_size)
    /\ (IsResizeCall /\ ret.error = "none" /\ ~call.target.isNone) =>
            /\ ~ret.target.isNone
            /\ BoxesScaledAxisWise(ret.target.boxes, call.target.boxes,
                                   <<call.shape[2], call.shape[3]>>,
                                   <<ret.shape[2], ret.shape[3]>>)

ResizeBoxesExampleWitness ==
    /\ call.op = "resize_boxes"
    /\ call.boxes = <<Box(10, 10, 50, 50)>>
    /\ call.original_size = <<600, 800>>
    /\ call.new_size = <<640, 853>>
    /\ ret.value = <<<< <<853, 80>>, <<32, 3>>, <<853, 16>>, <<160, 3>> >>>>

IsForwardCall == call.op = "forward"
NonThreeD(images) == {k \in DOMAIN images : Len(images[k].shape) # 3}
FirstOf(S) == CHOOSE k \in S : \A j \in S : k <= j

\* what a ValueError of forward looks like: raised at the first image that is
\* not 3-D, the images before it normalized and resized, that image and the
\* ones after it untouched, and no ImageList returned
ValueErrorAtFirstBadImage ==
    LET bad == NonThreeD(call.images)
    IN  /\ bad # {}
        /\ ret.error = ValueError(call.images[FirstOf(bad)].shape, FirstOf(bad))
        /\ \A k \in DOMAIN ret.images :
            IF k < FirstOf(bad)
            THEN ret.images[k].normalized /\ ret.images[k].resized
            ELSE ret.images[k] = call.images[k]
        /\ ret.image_list.isNone

\* C8 as stated: forward raises the ValueError whenever some image is not 3-D,
\* at the first such image, before normalizing or resizing it and without
\* returning an ImageList; with only 3-D images the check never raises.
ForwardRaisesOnAnyBadImage ==
    IsForwardCall =>
        IF NonThreeD(call.images) # {}
        THEN ValueErrorAtFirstBadImage
        ELSE ret.error.kind # "ValueError"

\* C8 amended: as above, unless the tensor library already failed on an image
\* before the first one that is not 3-D; that error then propagates instead.
ForwardRaisesUnlessLibraryFailedFirst ==
    IsForwardCall =>
        /\ ret.error.kind = "ValueError" => ValueErrorAtFirstBadImage
        /\ (NonThreeD(call.images) # {} /\ ret.error.kind # "interpolate") =>
                ValueErrorAtFirstBadImage
        /\ ret.error.kind = "interpolate" =>
                /\ ret.error.index \notin NonThreeD(call.images)
                /\ \A k \in NonThreeD(call.images) : ret.error.index < k
        /\ NonThreeD(call.images) = {} => ret.error.kind # "ValueError"
        /\ ret.image_list.isNone <=> ret.error.kind # "none"

ForwardValueErrorWitness ==
    /\ IsForwardCall
    /\ Len(call.images) = 2
    /\ call.images[1].shape = <<3, 600, 800>>
    /\ call.images[2].shape = <<1, 3, 2, 2>>
    /\ ret.error.kind = "ValueError"
    /\ ret.error.index = 2
    /\ ret.images[1].resized
    /\ ~ret.images[2].normalized
    /\ ret.image_list.isNone

\* C9: forward (with targets) and inference-mode postprocess leave the boxes of
\* the caller's target / prediction mappings as they were before the call.
CallerBoxesUntouched ==
    /\ (IsForwardCall /\ ~call.targets.isNone) => ret.targets = call.targets
    /\ (IsPostprocessCall /\ ~training) => ret.result = call.result

\* C10: _onnx_batch_images and the eager path of batch_images return the same
\* tensor (shape and contents) on the same images and stride, and every pad
\* amount of the export path is non-negative.
OnnxBatchMatchesEager ==
    IsBatchCall =>
        /\ ret.value = batch_images(call.images, call.size_divisible, ~call.tracing)
        /\ \A k \in DOMAIN call.images :
            LET padding == OnnxPadding(OnnxMaxSize(call.images, call.size_divisible),
                                       call.images[k])
            IN  \A i \in DOMAIN padding : padding[i] >= 0

OnnxBatchWitness ==
    /\ IsBatchCall
    /\ call.tracing
    /\ Len(call.images) = 2
    /\ call.images[1].shape = <<1, 1, 2>>
    /\ call.images[2].shape = <<2, 2, 3>>
    /\ call.size_divisible = 3
    /\ ret.value.shape = <<2, 2, 3, 3>>
    /\ ret.value.data[<<1, 1, 1, 2>>] = call.images[1].data[<<1, 1, 2>>]
    /\ ret.value.data[<<1, 2, 3, 3>>] = 0

====
